---- MODULE Spec2Model ----
(***************************************************************************)
(* Model of Assignment/agents/calendar_agent.py: the GoogleCalendar-       *)
(* Integration class (authenticate, parse_schedule_item, create_event,     *)
(* create_events_from_schedule) and integrate_schedule_with_calendar.      *)
(*                                                                         *)
(* Python strings are sequences of string atoms (single characters where   *)
(* the code looks inside the string, larger chunks elsewhere), so that an  *)
(* f-string is a concatenation and str.lower() is a map over characters.   *)
(* Python values are records tagged with their type in field t.            *)
(***************************************************************************)
EXTENDS Integers, Sequences, FiniteSets, TLC

VARIABLES
    service,        \* self.service: 0 is None, k > 0 the k-th session built
    phase,          \* where create_events_from_schedule stands
    schedule_data,  \* the argument of create_events_from_schedule
    pos,            \* the loop index i of enumerate(schedule_data, 1)
    results,        \* the results dictionary of the running / returned call
    today,          \* the date datetime.datetime.now() gives
    calls,          \* history: authenticate / parse / create calls of this batch
    errItems,       \* history: for each entry of results.errors, the item index (0: authentication)
    batches,        \* history: how many times create_events_from_schedule was called
    parsed_schedule_result,  \* the argument of integrate_schedule_with_calendar
    stage,          \* where integrate_schedule_with_calendar stands ("direct": not called)
    outcome,        \* what integrate_schedule_with_calendar returned
    origin,         \* history: how parsed_content was put together
    last_create     \* history: the last call of create_event by the caller itself

\* The variables of integrate_schedule_with_calendar
intake == <<parsed_schedule_result, stage, outcome, origin>>

vars == <<service, phase, schedule_data, pos, results, today, calls, errItems,
          batches, intake, last_create>>

-----------------------------------------------------------------------------
(* Bounds of the model *)

MaxItems == 3

MaxSessions == 2

MaxBatches == 2

TodaySpan == 7

\* Days of a nested schedule, and events of one day
MaxDays == 2

MaxEvents == 3

-----------------------------------------------------------------------------
(* Python values *)

PyStr(s) == [t |-> "str", v |-> s]

PyNone == [t |-> "none", v |-> <<>>]

PyInt(digits) == [t |-> "int", v |-> digits]

\* A key the dictionary does not hold.
Missing == [t |-> "missing", v |-> <<>>]

\* The keys the code reads: of an item (lines 96-102) and of the nested
\* structure (lines 292-297); other keys are not kept
Keys == <<"course", "type", "location", "date", "day", "from", "to",
          "schedule", "days", "events">>

PyDict(fields) == [t |-> "dict", v |-> <<>>, f |-> fields]

PyList(elems) == [t |-> "list", v |-> <<>>, e |-> elems]

PyBool(b) == [t |-> "bool", v |-> <<IF b THEN "True" ELSE "False">>]

EmptyDict == PyDict([k \in {Keys[j] : j \in 1..Len(Keys)} |-> Missing])

\* d[key] = val
SetKey(d, key, val) == [d EXCEPT !.f[key] = val]

\* key in d
HasKey(d, key) == d.f[key].t # "missing"

\* dict.get(key, default)
Get(item, key, default) ==
    IF item.f[key].t = "missing" THEN default ELSE item.f[key]

\* bool(value), as an if statement takes it
Truthy(val) ==
    CASE val.t = "str" -> val.v # <<>>
      [] val.t = "none" -> FALSE
      [] val.t = "int" -> val.v # <<"0">>
      [] val.t = "bool" -> val.v = <<"True">>
      [] val.t = "list" -> val.e # <<>>
      [] OTHER -> TRUE

\* str(value), as an f-string field formats it
Format(val) ==
    CASE val.t = "str" -> val.v
      [] val.t = "none" -> <<"None">>
      [] OTHER -> val.v

\* repr(value) of a scalar
ReprScalar(val) ==
    IF val.t = "str" THEN <<"'">> \o val.v \o <<"'">> ELSE Format(val)

RECURSIVE ReprFields(_, _, _)
ReprFields(item, k, first) ==
    IF k > Len(Keys) THEN <<>>
    ELSE IF item.f[Keys[k]].t = "missing" THEN ReprFields(item, k + 1, first)
    ELSE (IF first THEN <<>> ELSE <<", ">>)
         \o <<"'", Keys[k], "'", ": ">> \o ReprScalar(item.f[Keys[k]])
         \o ReprFields(item, k + 1, FALSE)

\* str(item) of any item, as f"{item}" formats it
FormatItem(item) ==
    IF item.t = "dict" THEN <<"{">> \o ReprFields(item, 1, TRUE) \o <<"}">>
    ELSE Format(item)

Uppers == <<"A","B","C","D","E","F","G","H","I","J","K","L","M",
            "N","O","P","Q","R","S","T","U","V","W","X","Y","Z">>

Lowers == <<"a","b","c","d","e","f","g","h","i","j","k","l","m",
            "n","o","p","q","r","s","t","u","v","w","x","y","z">>

LowerChar(c) ==
    IF \E k \in 1..Len(Uppers) : Uppers[k] = c
    THEN Lowers[CHOOSE k \in 1..Len(Uppers) : Uppers[k] = c]
    ELSE c

Digits == <<"0","1","2","3","4","5","6","7","8","9">>

\* str.lower()
Lower(s) == [k \in 1..Len(s) |-> LowerChar(s[k])]

-----------------------------------------------------------------------------
(* Text: str.startswith, str.replace, str.strip, json.loads *)

\* s.startswith(prefix)
StartsWith(s, prefix) == Len(prefix) <= Len(s) /\ SubSeq(s, 1, Len(prefix)) = prefix

\* s.replace(old, ''): every occurrence of old, from the left, is taken out
RECURSIVE RemoveAll(_, _)
RemoveAll(s, old) ==
    LET found == {p \in 1..(Len(s) - Len(old) + 1) : SubSeq(s, p, p + Len(old) - 1) = old}
    IN  IF found = {} \/ old = <<>> THEN s
        ELSE LET p == CHOOSE p \in found : \A q \in found : p <= q
             IN  SubSeq(s, 1, p - 1) \o RemoveAll(SubSeq(s, p + Len(old), Len(s)), old)

Whitespace == {" ", "\n", "\t", "\r"}

\* s.strip()
Strip(s) ==
    LET kept == {p \in 1..Len(s) : s[p] \notin Whitespace}
    IN  IF kept = {} THEN <<>>
        ELSE SubSeq(s, CHOOSE p \in kept : \A q \in kept : p <= q,
                       CHOOSE p \in kept : \A q \in kept : q <= p)

\* The result of a part of json.loads: the value and the place after it, or
\* not ok for JSONDecodeError
Decoded(val, at) == [ok |-> TRUE, val |-> val, at |-> at]

DecodeError == [ok |-> FALSE]

RECURSIVE SkipWhitespace(_, _)
SkipWhitespace(s, p) ==
    IF p <= Len(s) /\ s[p] \in Whitespace THEN SkipWhitespace(s, p + 1) ELSE p

\* A JSON string whose opening quote is at p (escapes are not modelled)
DecodeString(s, p) ==
    LET closing == {q \in (p + 1)..Len(s) : s[q] = "\""}
    IN  IF closing = {} THEN DecodeError
        ELSE LET q == CHOOSE q \in closing : \A r \in closing : q <= r
             IN  Decoded(PyStr(SubSeq(s, p + 1, q - 1)), q + 1)

\* The key of a member: its name when it is one of Keys, "" otherwise
KeyName(str) ==
    IF Len(str.v) = 1 /\ \E j \in 1..Len(Keys) : Keys[j] = str.v[1] THEN str.v[1] ELSE ""

RECURSIVE DecodeValue(_, _), DecodeElements(_, _, _), DecodeMembers(_, _, _)

\* The JSON value that starts at or after p
DecodeValue(s, p0) ==
    LET p == SkipWhitespace(s, p0)
    IN  IF p > Len(s) THEN DecodeError
        ELSE IF s[p] = "\"" THEN DecodeString(s, p)
        ELSE IF s[p] = "[" THEN
            LET q == SkipWhitespace(s, p + 1)
            IN  IF q <= Len(s) /\ s[q] = "]" THEN Decoded(PyList(<<>>), q + 1)
                ELSE DecodeElements(s, p + 1, <<>>)
        ELSE IF s[p] = "{" THEN
            LET q == SkipWhitespace(s, p + 1)
            IN  IF q <= Len(s) /\ s[q] = "}" THEN Decoded(EmptyDict, q + 1)
                ELSE DecodeMembers(s, p + 1, EmptyDict)
        ELSE IF s[p] = "null" THEN Decoded(PyNone, p + 1)
        ELSE IF s[p] = "true" THEN Decoded(PyBool(TRUE), p + 1)
        ELSE IF s[p] = "false" THEN Decoded(PyBool(FALSE), p + 1)
        ELSE IF \E j \in 1..Len(Digits) : Digits[j] = s[p] THEN Decoded(PyInt(<<s[p]>>), p + 1)
        ELSE DecodeError

\* The elements of an array from p on, acc the ones before
DecodeElements(s, p, acc) ==
    LET r == DecodeValue(s, p)
    IN  IF ~r.ok THEN DecodeError
        ELSE LET q == SkipWhitespace(s, r.at)
             IN  IF q > Len(s) THEN DecodeError
                 ELSE IF s[q] = "," THEN DecodeElements(s, q + 1, Append(acc, r.val))
                 ELSE IF s[q] = "]" THEN Decoded(PyList(Append(acc, r.val)), q + 1)
                 ELSE DecodeError

\* The members of an object from p on, acc the object so far (a later member
\* replaces an earlier one of the same key)
DecodeMembers(s, p, acc) ==
    LET k == SkipWhitespace(s, p)
    IN  IF k > Len(s) \/ s[k] # "\"" THEN DecodeError
        ELSE LET key == DecodeString(s, k)
             IN  IF ~key.ok THEN DecodeError
                 ELSE LET c == SkipWhitespace(s, key.at)
                      IN  IF c > Len(s) \/ s[c] # ":" THEN DecodeError
                          ELSE LET r == DecodeValue(s, c + 1)
                               IN  IF ~r.ok THEN DecodeError
                                   ELSE LET q == SkipWhitespace(s, r.at)
                                            obj == IF KeyName(key.val) = "" THEN acc
                                                   ELSE SetKey(acc, KeyName(key.val), r.val)
                                        IN  IF q > Len(s) THEN DecodeError
                                            ELSE IF s[q] = "," THEN DecodeMembers(s, q + 1, obj)
                                            ELSE IF s[q] = "}" THEN Decoded(obj, q + 1)
                                            ELSE DecodeError

\* json.loads(s): one value, with nothing but whitespace after it
Loads(s) ==
    LET r == DecodeValue(s, 1)
    IN  IF r.ok /\ SkipWhitespace(s, r.at) > Len(s) THEN r ELSE DecodeError

-----------------------------------------------------------------------------
(* Dates: datetime.now(), weekday(), timedelta, strftime *)

IsLeap(y) == (y % 4 = 0 /\ y % 100 # 0) \/ y % 400 = 0

DaysInMonth(y, m) ==
    IF m = 2 THEN (IF IsLeap(y) THEN 29 ELSE 28)
    ELSE IF m \in {4, 6, 9, 11} THEN 30 ELSE 31

DaysBeforeYear(y) ==
    (y - 1) * 365 + (y - 1) \div 4 - (y - 1) \div 100 + (y - 1) \div 400

RECURSIVE DaysBeforeMonth(_, _)
DaysBeforeMonth(y, m) ==
    IF m = 1 THEN 0 ELSE DaysBeforeMonth(y, m - 1) + DaysInMonth(y, m - 1)

\* date.toordinal(): 0001-01-01, a Monday, is day 1
ToOrdinal(d) == DaysBeforeYear(d.y) + DaysBeforeMonth(d.y, d.m) + d.d

\* date.weekday(): Monday is 0, Sunday is 6
Weekday(d) == (ToOrdinal(d) + 6) % 7

NextDay(d) ==
    IF d.d < DaysInMonth(d.y, d.m) THEN [d EXCEPT !.d = d.d + 1]
    ELSE IF d.m < 12 THEN [y |-> d.y, m |-> d.m + 1, d |-> 1]
    ELSE [y |-> d.y + 1, m |-> 1, d |-> 1]

\* d + datetime.timedelta(days=n), n >= 0
RECURSIVE AddDays(_, _)
AddDays(d, n) == IF n <= 0 THEN d ELSE AddDays(NextDay(d), n - 1)

Pad2(n) == <<Digits[((n \div 10) % 10) + 1], Digits[(n % 10) + 1]>>

Pad4(n) == Pad2(n \div 100) \o Pad2(n % 100)

\* strftime('%Y-%m-%d')
Strftime(d) == Pad4(d.y) \o <<"-">> \o Pad2(d.m) \o <<"-">> \o Pad2(d.d)

-----------------------------------------------------------------------------
(* parse_schedule_item *)

WeekdayNames ==
    << <<"m","o","n","d","a","y">>,
       <<"t","u","e","s","d","a","y">>,
       <<"w","e","d","n","e","s","d","a","y">>,
       <<"t","h","u","r","s","d","a","y">>,
       <<"f","r","i","d","a","y">>,
       <<"s","a","t","u","r","d","a","y">>,
       <<"s","u","n","d","a","y">> >>

\* list.index(x): the 0-based position of x; -1 stands for ValueError
ListIndex(list, x) ==
    IF \E k \in 1..Len(list) : list[k] = x
    THEN (CHOOSE k \in 1..Len(list) : list[k] = x /\ \A j \in 1..(k - 1) : list[j] # x) - 1
    ELSE -1

\* Mutant of DayIndex: the weekday name is matched without lowering it
DayIndexCaseSensitive(day) ==
    IF day.t # "str" THEN -1 ELSE ListIndex(WeekdayNames, day.v)

\* Line 116: [...].index(day.lower()); -1 when it raises (AttributeError for a
\* day that is no string, ValueError for a string that is not in the list)
DayIndex(day) ==
    IF day.t # "str" THEN -1 ELSE ListIndex(WeekdayNames, Lower(day.v))

\* Mutant of DaysAhead: "< 0" for "<= 0", today's weekday resolves to today
DaysAheadSameDay(idx, now) ==
    LET days_ahead == idx - Weekday(now)
    IN  IF days_ahead < 0 THEN days_ahead + 7 ELSE days_ahead

\* Lines 117-119: days_ahead for the weekday index idx
DaysAhead(idx, now) ==
    LET days_ahead == idx - Weekday(now)
    IN  IF days_ahead <= 0 THEN days_ahead + 7 ELSE days_ahead

\* Mutant of EventDate: a recognized day is resolved first, the date only after
EventDateDayFirst(date_str, day, now) ==
    IF DayIndex(day) # -1
    THEN PyStr(Strftime(AddDays(now, DaysAhead(DayIndex(day), now))))
    ELSE IF Truthy(date_str) THEN PyStr(Format(date_str))
    ELSE PyNone

\* Lines 110-120: event_date, PyNone when line 116 raises
EventDate(date_str, day, now) ==
    IF Truthy(date_str) THEN PyStr(Format(date_str))
    ELSE IF DayIndex(day) = -1 THEN PyNone
    ELSE PyStr(Strftime(AddDays(now, DaysAhead(DayIndex(day), now))))

\* Mutant of Title: the suffix is added whatever the type is
TitleAlwaysSuffixed(course, event_type) ==
    Format(course) \o <<" - ">> \o Format(event_type)

\* Lines 105-107
Title(course, event_type) ==
    IF Truthy(event_type) THEN Format(course) \o <<" - ">> \o Format(event_type)
    ELSE Format(course)

\* Mutant of Reminders: the calendar's default reminders are kept
RemindersByDefault == [useDefault |-> TRUE, overrides |-> <<>>]

\* Lines 139-145
Reminders ==
    [useDefault |-> FALSE,
     overrides |-> << [method |-> "popup", minutes |-> 15],
                      [method |-> "email", minutes |-> 60] >>]

\* The event dictionary of lines 127-146
EventDict(course, event_type, location, event_date, start_time, end_time) ==
    [t |-> "event",
     summary |-> Title(course, event_type),
     location |-> location,
     description |-> <<"Course: ">> \o Format(course) \o <<"\n", "Type: ">>
                     \o Format(event_type),
     start |-> [dateTime |-> event_date \o <<"T">> \o Format(start_time) \o <<":00">>,
                timeZone |-> "Europe/Brussels"],
     end |-> [dateTime |-> event_date \o <<"T">> \o Format(end_time) \o <<":00">>,
              timeZone |-> "Europe/Brussels"],
     reminders |-> Reminders]

\* Mutant of parse_schedule_item: an item without a course is refused
parse_schedule_item_strict(item, now) ==
    IF item.t # "dict" THEN PyNone
    ELSE LET event_date == EventDate(Get(item, "date", PyStr(<<>>)),
                                     Get(item, "day", PyStr(<<>>)), now)
         IN  IF event_date.t = "none" \/ item.f["course"].t = "missing" THEN PyNone
             ELSE EventDict(Get(item, "course", PyStr(<<"Unknown Course">>)),
                            Get(item, "type", PyStr(<<"Class">>)),
                            Get(item, "location", PyStr(<<>>)),
                            event_date.v,
                            Get(item, "from", PyStr(<<"08:00">>)),
                            Get(item, "to", PyStr(<<"10:00">>)))

\* parse_schedule_item: the event, or PyNone when the try block raised (an item
\* that is no dict has no get: AttributeError at line 96)
parse_schedule_item(item, now) ==
    IF item.t # "dict" THEN PyNone
    ELSE LET event_date == EventDate(Get(item, "date", PyStr(<<>>)),
                                     Get(item, "day", PyStr(<<>>)), now)
         IN  IF event_date.t = "none" THEN PyNone
             ELSE EventDict(Get(item, "course", PyStr(<<"Unknown Course">>)),
                            Get(item, "type", PyStr(<<"Class">>)),
                            Get(item, "location", PyStr(<<>>)),
                            event_date.v,
                            Get(item, "from", PyStr(<<"08:00">>)),
                            Get(item, "to", PyStr(<<"10:00">>)))

-----------------------------------------------------------------------------
(* create_event and the messages of create_events_from_schedule *)

\* authenticate (lines 72-82): the session after the call; built is whether
\* get_calendar_service returned (TRUE) or raised (FALSE)
authenticate(svc, built) == IF built THEN svc + 1 ELSE svc

\* Mutant of InsertCalled: the request is made whether there is a service or not
InsertCalledAlways(svc) == TRUE

\* create_event (lines 164-179): whether events().insert(...).execute() is
\* reached, and the value returned; inserted is whether the backend accepts
\* the event (TRUE) or the request raises (FALSE)
InsertCalled(svc) == svc # 0

create_event(svc, inserted) == IF svc = 0 THEN FALSE ELSE inserted

\* Line 200
AuthErrorMessage == <<"Failed to authenticate with Google Calendar">>

\* Line 218
CreateErrorMessage(item) ==
    <<"Failed to create event for ">>
    \o Format(Get(item, "course", PyStr(<<"Unknown Course">>)))

\* Mutant of ParseErrorMessage: the entry names the course only
ParseErrorMessageCourse(item) ==
    <<"Failed to parse schedule item: ">>
    \o Format(Get(item, "course", PyStr(<<"Unknown Course">>)))

\* Line 221
ParseErrorMessage(item) == <<"Failed to parse schedule item: ">> \o FormatItem(item)

\* Lines 191-196
NewResults(data) == [total |-> Len(data), created |-> 0, failed |-> 0, errors |-> <<>>]

\* Line 215
Created(res) == [res EXCEPT !.created = @ + 1]

\* Mutant of Failed: the error is recorded, the failure is not counted
FailedUncounted(res, message) == [res EXCEPT !.errors = Append(@, message)]

\* Mutant of Failed: the newest error is put first
FailedPrepends(res, message) ==
    [res EXCEPT !.failed = @ + 1, !.errors = <<message>> \o @]

\* Lines 217-218 and 220-221
Failed(res, message) ==
    [res EXCEPT !.failed = @ + 1, !.errors = Append(@, message)]

-----------------------------------------------------------------------------
(* integrate_schedule_with_calendar: from parsed_content to schedule_data *)

\* The character U+0060, which a TLA+ string cannot hold
Backtick == "<backtick>"

FenceJson == <<Backtick, Backtick, Backtick, "json">>

Fence == <<Backtick, Backtick, Backtick>>

\* Lines 283-286
JsonContent(parsed_content) ==
    IF StartsWith(parsed_content, FenceJson)
    THEN Strip(RemoveAll(RemoveAll(parsed_content, FenceJson), Fence))
    ELSE parsed_content

\* An AttributeError or a TypeError, which line 304 does not catch
Raise == [ok |-> FALSE]

\* The keys of a dict, as strings
RECURSIVE KeysOf(_, _)
KeysOf(d, k) ==
    IF k > Len(Keys) THEN <<>>
    ELSE (IF HasKey(d, Keys[k]) THEN <<PyStr(<<Keys[k]>>)>> ELSE <<>>) \o KeysOf(d, k + 1)

\* What a for loop over val goes through
Iterate(val) ==
    CASE val.t = "list" -> [ok |-> TRUE, e |-> val.e]
      [] val.t = "str" -> [ok |-> TRUE, e |-> [k \in 1..Len(val.v) |-> PyStr(<<val.v[k]>>)]]
      [] val.t = "dict" -> [ok |-> TRUE, e |-> KeysOf(val, 1)]
      [] OTHER -> Raise

\* Mutant of TagEvents: the events keep the day they came with
RECURSIVE TagEventsKeepsDay(_, _, _, _)
TagEventsKeepsDay(events, label, k, acc) ==
    IF k > Len(events) THEN [ok |-> TRUE, e |-> acc]
    ELSE IF events[k].t # "dict" THEN Raise
    ELSE TagEventsKeepsDay(events, label, k + 1,
             Append(acc, IF HasKey(events[k], "day") THEN events[k]
                         ELSE SetKey(events[k], "day", label)))

\* Lines 295-297: each event of one day gets the day's label and joins acc
RECURSIVE TagEvents(_, _, _, _)
TagEvents(events, label, k, acc) ==
    IF k > Len(events) THEN [ok |-> TRUE, e |-> acc]
    ELSE IF events[k].t # "dict" THEN Raise
    ELSE TagEvents(events, label, k + 1, Append(acc, SetKey(events[k], "day", label)))

\* Lines 294-297: the days from the k-th on
RECURSIVE FlattenDays(_, _, _)
FlattenDays(days, k, acc) ==
    IF k > Len(days) THEN [ok |-> TRUE, e |-> acc]
    ELSE LET day_data == days[k]
         IN  IF day_data.t # "dict" THEN Raise
             ELSE LET events == Iterate(Get(day_data, "events", PyList(<<>>)))
                  IN  IF ~events.ok THEN Raise
                      ELSE LET tagged == TagEvents(events.e, Get(day_data, "day", PyStr(<<>>)),
                                                   1, acc)
                           IN  IF ~tagged.ok THEN Raise
                               ELSE FlattenDays(days, k + 1, tagged.e)

\* Lines 292-298: the nested structure
FlattenSchedule(val) ==
    LET schedule == val.f["schedule"]
    IN  IF schedule.t # "dict" THEN Raise
        ELSE LET days == Iterate(Get(schedule, "days", PyList(<<>>)))
             IN  IF ~days.ok THEN Raise
                 ELSE LET r == FlattenDays(days.e, 1, <<>>)
                      IN  IF r.ok THEN [ok |-> TRUE, val |-> PyList(r.e)] ELSE Raise

\* Mutant of ScheduleData: the nested structure is one whose schedule has days
ScheduleDataNeedsDays(val) ==
    IF val.t = "dict" /\ HasKey(val, "schedule") /\ val.f["schedule"].t = "dict"
       /\ HasKey(val.f["schedule"], "days")
    THEN FlattenSchedule(val)
    ELSE IF val.t = "dict" THEN [ok |-> TRUE, val |-> PyList(<<val>>)]
    ELSE [ok |-> TRUE, val |-> val]

\* Lines 292-302: schedule_data after the dispatch on its shape
ScheduleData(val) ==
    IF val.t = "dict" /\ HasKey(val, "schedule") THEN FlattenSchedule(val)
    ELSE IF val.t = "dict" THEN [ok |-> TRUE, val |-> PyList(<<val>>)]
    ELSE [ok |-> TRUE, val |-> val]

\* Lines 282-311: "decode_error" for JSONDecodeError, "raised" for an exception
\* of the dispatch or of len() at line 311, else the items the batch goes through
Prepared(parsed_content) ==
    LET r == Loads(JsonContent(parsed_content))
    IN  IF ~r.ok THEN [kind |-> "decode_error", items |-> <<>>]
        ELSE LET d == ScheduleData(r.val)
             IN  IF ~d.ok \/ d.val.t \notin {"list", "str"}
                 THEN [kind |-> "raised", items |-> <<>>]
                 ELSE [kind |-> "ok", items |-> Iterate(d.val).e]

\* str(n) of a natural number
RECURSIVE IntStr(_)
IntStr(n) == IF n < 10 THEN <<Digits[n + 1]>> ELSE IntStr(n \div 10) \o <<Digits[(n % 10) + 1]>>

\* Lines 272-276
UpstreamFailure(request) ==
    [success |-> FALSE,
     error |-> <<"Schedule parsing failed: ">>
               \o (IF request.error.t = "missing" THEN <<"Unknown error">>
                   ELSE Format(request.error)),
     calendar_results |-> PyNone]

\* Lines 305-309; the text of the JSONDecodeError is one atom
DecodeFailure ==
    [success |-> FALSE,
     error |-> <<"Failed to parse schedule JSON: ", "JSONDecodeError">>,
     calendar_results |-> PyNone]

\* Mutant of IntegrationResult: success is that no item failed
IntegrationResultNoneFailed(res) ==
    [success |-> res.failed = 0 /\ res.errors = <<>>,
     calendar_results |-> res,
     message |-> <<"Successfully created ">> \o IntStr(res.created) \o <<" out of ">>
                 \o IntStr(res.total) \o <<" calendar events">>]

\* Lines 331-335
IntegrationResult(res) ==
    [success |-> res.created > 0,
     calendar_results |-> res,
     message |-> <<"Successfully created ">> \o IntStr(res.created) \o <<" out of ">>
                 \o IntStr(res.total) \o <<" calendar events">>]

-----------------------------------------------------------------------------
(* Inputs *)

MkItem(course, event_type, location, date, day, from, to) ==
    PyDict([course |-> course, type |-> event_type, location |-> location,
            date |-> date, day |-> day, from |-> from, to |-> to,
            schedule |-> Missing, days |-> Missing, events |-> Missing])

SampleDate == PyStr(<<"2","0","2","5","-","0","9","-","0","1">>)

\* The first item of the sample schedule of test_google_calendar.py
SampleItem ==
    MkItem(PyStr(<<"Wiskunde I">>), PyStr(<<"Lecture">>), PyStr(<<"A0.030">>),
           SampleDate, PyStr(<<"M","o","n","d","a","y">>),
           PyStr(<<"08:30">>), PyStr(<<"10:30">>))

DayOnlyItem ==
    MkItem(PyStr(<<"Fysica">>), PyStr(<<"Lab">>), Missing,
           Missing, PyStr(<<"F","r","i","d","a","y">>), Missing, Missing)

BadDayItem ==
    MkItem(PyStr(<<"Chemie">>), Missing, Missing,
           Missing, PyStr(<<"N","o","d","a","y">>), Missing, Missing)

NoCourseNoDayItem ==
    MkItem(Missing, PyStr(<<"Lab">>), Missing, Missing, Missing, Missing, Missing)

NoCourseItem ==
    MkItem(Missing, Missing, Missing, SampleDate, Missing, Missing, Missing)

\* An item that is no mapping: a JSON string in the list
StringItem == PyStr(<<"a","b","c">>)

BatchItems ==
    {SampleItem, DayOnlyItem, BadDayItem, NoCourseNoDayItem, NoCourseItem, StringItem}

RECURSIVE SeqsUpTo(_, _)
SeqsUpTo(S, n) ==
    IF n = 0 THEN {<<>>}
    ELSE LET shorter == SeqsUpTo(S, n - 1)
         IN  shorter \cup {Append(q, x) : q \in {r \in shorter : Len(r) = n - 1}, x \in S}

Schedules == SeqsUpTo(BatchItems, MaxItems)

DayValues ==
    {Missing, PyNone, PyInt(<<"3">>), PyStr(<<>>),
     PyStr(<<"M","o","n","d","a","y">>),
     PyStr(<<"T","U","E","S","D","A","Y">>),
     PyStr(<<"w","e","d","n","e","s","d","a","y">>),
     PyStr(<<"T","h","u","r","s","d","a","y">>),
     PyStr(<<"f","R","i","D","a","Y">>),
     PyStr(<<"S","a","t","u","r","d","a","y">>),
     PyStr(<<"S","U","N","D","A","Y">>),
     PyStr(<<"N","o","d","a","y">>),
     PyStr(<<"M","o","n">>)}

DateValues == {Missing, PyNone, PyStr(<<>>), SampleDate, PyInt(<<"5">>)}

\* course, type, location, from, to
Profiles ==
    { <<PyStr(<<"Wiskunde I">>), PyStr(<<"Lecture">>), PyStr(<<"A0.030">>),
        PyStr(<<"08:30">>), PyStr(<<"10:30">>)>>,
      <<Missing, Missing, Missing, Missing, Missing>>,
      <<PyStr(<<"Fysica">>), PyStr(<<>>), Missing, Missing, Missing>>,
      <<PyInt(<<"7">>), PyNone, PyNone, PyInt(<<"9">>), PyNone>> }

SingleItems ==
    {MkItem(p[1], p[2], p[3], date, day, p[4], p[5]) :
        p \in Profiles, date \in DateValues, day \in DayValues}
    \cup {StringItem, PyInt(<<"4">>), PyNone}

\* TodaySpan consecutive days from each start: across a leap day and a new year
TodayDates ==
    {AddDays(start, k) :
        start \in {[y |-> 2024, m |-> 2, d |-> 24], [y |-> 2025, m |-> 12, d |-> 26]},
        k \in 0..(TodaySpan - 1)}

\* json.dumps(val): the text a value is written as
RECURSIVE Dumps(_), DumpsElements(_, _), DumpsMembers(_, _, _)
Dumps(val) ==
    CASE val.t = "str" -> <<"\"">> \o val.v \o <<"\"">>
      [] val.t = "int" -> val.v
      [] val.t = "none" -> <<"null">>
      [] val.t = "bool" -> <<IF val.v = <<"True">> THEN "true" ELSE "false">>
      [] val.t = "list" -> <<"[">> \o DumpsElements(val.e, 1) \o <<"]">>
      [] val.t = "dict" -> <<"{">> \o DumpsMembers(val, 1, TRUE) \o <<"}">>

DumpsElements(e, k) ==
    IF k > Len(e) THEN <<>>
    ELSE (IF k > 1 THEN <<",", " ">> ELSE <<>>) \o Dumps(e[k]) \o DumpsElements(e, k + 1)

DumpsMembers(d, k, first) ==
    IF k > Len(Keys) THEN <<>>
    ELSE IF ~HasKey(d, Keys[k]) THEN DumpsMembers(d, k + 1, first)
    ELSE (IF first THEN <<>> ELSE <<",", " ">>)
         \o <<"\"", Keys[k], "\"", ":", " ">> \o Dumps(d.f[Keys[k]])
         \o DumpsMembers(d, k + 1, FALSE)

DayLabels ==
    <<PyStr(<<"M","o","n","d","a","y">>), PyStr(<<"N","o","d","a","y">>),
      PyStr(<<"f","R","i","D","a","Y">>)>>

DayLabel(d) == DayLabels[((d - 1) % Len(DayLabels)) + 1]

\* The e-th event of the d-th day: every second one has a date, the first of
\* a day comes with a day of its own
NestedEvent(d, e) ==
    MkItem(PyStr(<<"c", Digits[d + 1], Digits[e + 1]>>), Missing, Missing,
           IF e % 2 = 0 THEN SampleDate ELSE Missing,
           IF e = 1 THEN PyStr(<<"S","u","n","d","a","y">>) ELSE Missing,
           Missing, Missing)

DayEntry(d, n) ==
    SetKey(SetKey(EmptyDict, "day", DayLabel(d)),
           "events", PyList([e \in 1..n |-> NestedEvent(d, e)]))

WithDays(days) == SetKey(EmptyDict, "schedule", SetKey(EmptyDict, "days", days))

\* {"schedule": {"days": [{"day": ..., "events": [...]}, ...]}} with counts[d]
\* events on the d-th day
Nested(counts) == WithDays(PyList([d \in 1..Len(counts) |-> DayEntry(d, counts[d])]))

\* A course whose name holds three backticks
BacktickItem ==
    MkItem(PyStr(<<"a", Backtick, Backtick, Backtick, "b">>), Missing, Missing, SampleDate,
           Missing, Missing, Missing)

\* Top-level values that are no well-formed nested structure
OtherValues ==
    {PyList(<<>>), PyList(<<SampleItem>>), PyList(<<BadDayItem, DayOnlyItem>>),
     PyList(<<SampleItem, StringItem>>),
     SampleItem, NoCourseNoDayItem, BacktickItem,
     SetKey(EmptyDict, "days", PyList(<<>>)),
     SetKey(EmptyDict, "schedule", EmptyDict),
     SetKey(EmptyDict, "schedule", SetKey(SampleItem, "events", PyList(<<>>))),
     SetKey(EmptyDict, "schedule", PyStr(<<"a","b","c">>)),
     SetKey(EmptyDict, "schedule", PyNone),
     SetKey(EmptyDict, "schedule", PyList(<<SampleItem>>)),
     WithDays(PyNone),
     WithDays(PyList(<<StringItem>>)),
     WithDays(PyList(<<SetKey(EmptyDict, "day", DayLabel(1))>>)),
     WithDays(PyList(<<SetKey(EmptyDict, "events", PyList(<<DayOnlyItem>>))>>)),
     WithDays(PyList(<<SetKey(EmptyDict, "events", PyList(<<StringItem>>))>>)),
     WithDays(PyList(<<SetKey(EmptyDict, "events", PyInt(<<"5">>))>>)),
     PyInt(<<"5">>), PyStr(<<"a","b","c">>), PyStr(<<>>), PyNone, PyBool(TRUE)}

\* Texts that are no JSON
InvalidTexts ==
    {<<>>, <<"{">>, <<"[", "5", ",">>, <<"S","o","r","r","y">>,
     <<"{", "\"", "course", "\"", "}">>, <<"[", "]", "x">>, <<"\"", "a">>,
     <<"[", "5", " ", "5", "]">>}

Wrappers == {"plain", "padded", "fenced", "spaced", "prefixed", "unlabelled"}

\* The text around the JSON: nothing, whitespace, a fence labelled json, the fence
\* after whitespace or after a sentence, a fence without the json label
Wrap(wrapper, text) ==
    LET fenced == FenceJson \o <<"\n">> \o text \o <<"\n">> \o Fence
    IN  CASE wrapper = "plain" -> text
          [] wrapper = "padded" -> <<"\n">> \o text \o <<" ", "\n">>
          [] wrapper = "fenced" -> fenced
          [] wrapper = "spaced" -> <<" ">> \o fenced
          [] wrapper = "prefixed" -> <<"Here is the schedule:", "\n">> \o fenced
          [] wrapper = "unlabelled" -> Fence \o <<"\n">> \o text \o <<"\n">> \o Fence

\* What the text of a request was made of
Origins ==
    {[kind |-> "nested", value |-> Nested(counts), counts |-> counts,
      text |-> Dumps(Nested(counts)), wrapper |-> w] :
        counts \in SeqsUpTo(0..MaxEvents, MaxDays), w \in Wrappers}
    \cup {[kind |-> "other", value |-> val, counts |-> <<>>,
           text |-> Dumps(val), wrapper |-> w] : val \in OtherValues, w \in Wrappers}
    \cup {[kind |-> "invalid", value |-> PyNone, counts |-> <<>>,
           text |-> text, wrapper |-> w] : text \in InvalidTexts, w \in Wrappers}

\* The result of the parsing agent: its content on success, its error otherwise
Request(success, from) ==
    [success |-> success,
     parsed_content |-> Wrap(from.wrapper, from.text),
     error |-> IF success \/ from.kind = "invalid" THEN Missing
               ELSE PyStr(<<"HTTP error: 500">>)]

-----------------------------------------------------------------------------
(* The state machine *)

InitWith(data, now) ==
    /\ service = 0
    /\ phase = "idle"
    /\ schedule_data = data
    /\ pos = 1
    /\ results = NewResults(<<>>)
    /\ today = now
    /\ calls = <<>>
    /\ errItems = <<>>
    /\ batches = 0
    /\ parsed_schedule_result = PyNone
    /\ stage = "direct"
    /\ outcome = PyNone
    /\ origin = PyNone
    /\ last_create = PyNone

\* Batches of up to MaxItems items, on one day
Init == \E data \in Schedules : InitWith(data, [y |-> 2024, m |-> 2, d |-> 24])

\* One-item batches over the item shapes, on every day of TodayDates
InitItem == \E item \in SingleItems, now \in TodayDates : InitWith(<<item>>, now)

\* A call of integrate_schedule_with_calendar with the result of the parsing
\* agent; a failed result is passed on for the wrappers "plain" and "fenced"
InitIntegrate ==
    \E from \in Origins, success \in BOOLEAN :
        /\ success \/ from.wrapper \in {"plain", "fenced"}
        /\ service = 0
        /\ phase = "idle"
        /\ schedule_data = <<>>
        /\ pos = 1
        /\ results = NewResults(<<>>)
        /\ today = [y |-> 2024, m |-> 2, d |-> 24]
        /\ calls = <<>>
        /\ errItems = <<>>
        /\ batches = 0
        /\ parsed_schedule_result = Request(success, from)
        /\ stage = "start"
        /\ outcome = PyNone
        /\ origin = from
        /\ last_create = PyNone

\* The caller calls authenticate() itself (test_google_calendar.py line 68)
CallerAuthenticate ==
    /\ stage = "direct"
    /\ phase \in {"idle", "done", "raised"}
    /\ service < MaxSessions
    /\ \E built \in BOOLEAN : service' = authenticate(service, built)
    /\ UNCHANGED <<phase, schedule_data, pos, results, today, calls, errItems,
                   batches, intake, last_create>>

\* The caller calls create_event itself (as test_google_calendar.py line 159
\* and ultra_simple_mcp.py line 39 do), with the event of an item of the
\* schedule: lines 164-179
CallerCreateEvent ==
    /\ stage = "direct"
    /\ phase \in {"idle", "done", "raised"}
    /\ \E k \in 1..Len(schedule_data), inserted \in BOOLEAN :
         /\ schedule_data[k].t = "dict"
         /\ Truthy(parse_schedule_item(schedule_data[k], today))
         /\ last_create' = [session |-> service,
                            contacted |-> InsertCalled(service),
                            ok |-> create_event(service, inserted)]
    /\ UNCHANGED <<service, phase, schedule_data, pos, results, today, calls, errItems,
                   batches, intake>>

\* Mutant of Invoke: authenticate() is called whether there is a service or not
InvokeAlwaysAuthenticates ==
    /\ phase \in {"idle", "done", "raised"}
    /\ stage \in {"direct", "calling"}
    /\ batches < MaxBatches
    /\ batches' = batches + 1
    /\ stage' = IF stage = "calling" THEN "batch" ELSE stage
    /\ results' = NewResults(schedule_data)
    /\ pos' = 1
    /\ calls' = <<>>
    /\ errItems' = <<>>
    /\ phase' = "authenticating"
    /\ UNCHANGED <<service, schedule_data, today, parsed_schedule_result, outcome, origin, last_create>>

\* create_events_from_schedule is called, by the caller of the class or by
\* line 317 of integrate_schedule_with_calendar: lines 191-198
Invoke ==
    /\ phase \in {"idle", "done", "raised"}
    /\ stage \in {"direct", "calling"}
    /\ batches < MaxBatches
    /\ batches' = batches + 1
    /\ stage' = IF stage = "calling" THEN "batch" ELSE stage
    /\ results' = NewResults(schedule_data)
    /\ pos' = 1
    /\ calls' = <<>>
    /\ errItems' = <<>>
    /\ phase' = IF service = 0 THEN "authenticating" ELSE "processing"
    /\ UNCHANGED <<service, schedule_data, today, parsed_schedule_result, outcome, origin, last_create>>

\* Line 199, authenticate() returns True
AuthenticateOk ==
    /\ phase = "authenticating"
    /\ service' = authenticate(service, TRUE)
    /\ calls' = Append(calls, [op |-> "authenticate", idx |-> 0, ok |-> TRUE])
    /\ phase' = "processing"
    /\ UNCHANGED <<schedule_data, pos, results, today, errItems,
                   batches, intake, last_create>>

\* Mutant of AuthenticateFails: the return of line 201 is missing
AuthenticateFailsNoReturn ==
    /\ phase = "authenticating"
    /\ service' = authenticate(service, FALSE)
    /\ calls' = Append(calls, [op |-> "authenticate", idx |-> 0, ok |-> FALSE])
    /\ results' = [results EXCEPT !.errors = Append(@, AuthErrorMessage)]
    /\ errItems' = Append(errItems, 0)
    /\ phase' = "processing"
    /\ UNCHANGED <<schedule_data, pos, today,
                   batches, intake, last_create>>

\* Lines 199-201, authenticate() returns False
AuthenticateFails ==
    /\ phase = "authenticating"
    /\ service' = authenticate(service, FALSE)
    /\ calls' = Append(calls, [op |-> "authenticate", idx |-> 0, ok |-> FALSE])
    /\ results' = [results EXCEPT !.errors = Append(@, AuthErrorMessage)]
    /\ errItems' = Append(errItems, 0)
    /\ phase' = "done"
    /\ UNCHANGED <<schedule_data, pos, today,
                   batches, intake, last_create>>

\* Line 207: item.get of an item that is no dict raises AttributeError, which
\* nothing catches: the call ends with the exception
ItemRaises ==
    /\ phase = "processing"
    /\ pos <= Len(schedule_data)
    /\ schedule_data[pos].t # "dict"
    /\ phase' = "raised"
    /\ UNCHANGED <<service, schedule_data, pos, results, today, calls, errItems,
                   batches, intake, last_create>>

\* Lines 210, 219-221: parse_schedule_item returns None
ItemParseFails ==
    /\ phase = "processing"
    /\ pos <= Len(schedule_data)
    /\ schedule_data[pos].t = "dict"
    /\ ~Truthy(parse_schedule_item(schedule_data[pos], today))
    /\ calls' = Append(calls, [op |-> "parse", idx |-> pos, ok |-> FALSE])
    /\ results' = Failed(results, ParseErrorMessage(schedule_data[pos]))
    /\ errItems' = Append(errItems, pos)
    /\ pos' = pos + 1
    /\ UNCHANGED <<service, phase, schedule_data, today,
                   batches, intake, last_create>>

\* Mutant of ItemSubmitted: a rejected insert is tried a second time
ItemSubmittedWithRetry ==
    /\ phase = "processing"
    /\ pos <= Len(schedule_data)
    /\ schedule_data[pos].t = "dict"
    /\ LET item == schedule_data[pos]
           event == parse_schedule_item(item, today)
       IN  /\ Truthy(event)
           /\ \E inserted \in BOOLEAN :
                LET ok == create_event(service, inserted)
                    insert == [op |-> "insert", idx |-> pos, ok |-> inserted,
                               event |-> event, session |-> service]
                IN  /\ calls' = calls
                         \o <<[op |-> "parse", idx |-> pos, ok |-> TRUE]>>
                         \o (IF InsertCalled(service) THEN <<insert>> ELSE <<>>)
                         \o (IF InsertCalled(service) /\ ~ok THEN <<insert>> ELSE <<>>)
                    /\ results' = IF ok THEN Created(results)
                                  ELSE Failed(results, CreateErrorMessage(item))
                    /\ errItems' = IF ok THEN errItems ELSE Append(errItems, pos)
    /\ pos' = pos + 1
    /\ UNCHANGED <<service, phase, schedule_data, today,
                   batches, intake, last_create>>

\* Lines 210-218: parse_schedule_item returns an event, create_event is called
ItemSubmitted ==
    /\ phase = "processing"
    /\ pos <= Len(schedule_data)
    /\ schedule_data[pos].t = "dict"
    /\ LET item == schedule_data[pos]
           event == parse_schedule_item(item, today)
       IN  /\ Truthy(event)
           /\ \E inserted \in BOOLEAN :
                LET ok == create_event(service, inserted)
                IN  /\ calls' = calls
                         \o <<[op |-> "parse", idx |-> pos, ok |-> TRUE]>>
                         \o (IF InsertCalled(service)
                             THEN <<[op |-> "insert", idx |-> pos, ok |-> inserted,
                                     event |-> event, session |-> service]>>
                             ELSE <<>>)
                    /\ results' = IF ok THEN Created(results)
                                  ELSE Failed(results, CreateErrorMessage(item))
                    /\ errItems' = IF ok THEN errItems ELSE Append(errItems, pos)
    /\ pos' = pos + 1
    /\ UNCHANGED <<service, phase, schedule_data, today,
                   batches, intake, last_create>>

\* Line 223
Return ==
    /\ phase = "processing"
    /\ pos > Len(schedule_data)
    /\ phase' = "done"
    /\ UNCHANGED <<service, schedule_data, pos, results, today, calls, errItems,
                   batches, intake, last_create>>

\* Mutant of IntegrateRejected: the content is looked at all the same, and
\* the result is the failure only when it gives no items
IntegrateRejectedLate ==
    /\ stage = "start"
    /\ ~parsed_schedule_result.success
    /\ LET prepared == Prepared(parsed_schedule_result.parsed_content)
       IN  IF prepared.kind = "ok" /\ prepared.items # <<>>
           THEN /\ schedule_data' = prepared.items
                /\ stage' = "calling"
                /\ outcome' = outcome
           ELSE /\ schedule_data' = schedule_data
                /\ stage' = "returned"
                /\ outcome' = UpstreamFailure(parsed_schedule_result)
    /\ UNCHANGED <<service, phase, pos, results, today, calls, errItems,
                   batches, parsed_schedule_result, origin, last_create>>

\* Lines 271-276: the parsing agent had no success
IntegrateRejected ==
    /\ stage = "start"
    /\ ~parsed_schedule_result.success
    /\ outcome' = UpstreamFailure(parsed_schedule_result)
    /\ stage' = "returned"
    /\ UNCHANGED <<service, phase, schedule_data, pos, results, today, calls, errItems,
                   batches, parsed_schedule_result, origin, last_create>>

\* Mutant of IntegrateDecodeError: text that is no JSON counts as an empty schedule
IntegrateDecodeErrorAsEmpty ==
    /\ stage = "start"
    /\ parsed_schedule_result.success
    /\ Prepared(parsed_schedule_result.parsed_content).kind = "decode_error"
    /\ schedule_data' = <<>>
    /\ service' = 0
    /\ stage' = "calling"
    /\ UNCHANGED <<phase, pos, results, today, calls, errItems,
                   batches, parsed_schedule_result, outcome, origin, last_create>>

\* Lines 304-309: json.loads raises JSONDecodeError
IntegrateDecodeError ==
    /\ stage = "start"
    /\ parsed_schedule_result.success
    /\ Prepared(parsed_schedule_result.parsed_content).kind = "decode_error"
    /\ outcome' = DecodeFailure
    /\ stage' = "returned"
    /\ UNCHANGED <<service, phase, schedule_data, pos, results, today, calls, errItems,
                   batches, parsed_schedule_result, origin, last_create>>

\* Lines 292-311: the dispatch or len() raises an exception that nothing
\* catches: the call ends with the exception
IntegrateRaises ==
    /\ stage = "start"
    /\ parsed_schedule_result.success
    /\ Prepared(parsed_schedule_result.parsed_content).kind = "raised"
    /\ stage' = "raised"
    /\ UNCHANGED <<service, phase, schedule_data, pos, results, today, calls, errItems,
                   batches, parsed_schedule_result, outcome, origin, last_create>>

\* Lines 279-314: schedule_data is ready, and a new GoogleCalendarIntegration
\* has no service
IntegratePrepared ==
    /\ stage = "start"
    /\ parsed_schedule_result.success
    /\ Prepared(parsed_schedule_result.parsed_content).kind = "ok"
    /\ schedule_data' = Prepared(parsed_schedule_result.parsed_content).items
    /\ service' = 0
    /\ stage' = "calling"
    /\ UNCHANGED <<phase, pos, results, today, calls, errItems,
                   batches, parsed_schedule_result, outcome, origin, last_create>>

\* Lines 317-335: create_events_from_schedule has returned
IntegrateReturns ==
    /\ stage = "batch"
    /\ phase = "done"
    /\ outcome' = IntegrationResult(results)
    /\ stage' = "returned"
    /\ UNCHANGED <<service, phase, schedule_data, pos, results, today, calls, errItems,
                   batches, parsed_schedule_result, origin, last_create>>

\* Line 317: create_events_from_schedule has raised, and so does the call
IntegratePropagates ==
    /\ stage = "batch"
    /\ phase = "raised"
    /\ stage' = "raised"
    /\ UNCHANGED <<service, phase, schedule_data, pos, results, today, calls, errItems,
                   batches, parsed_schedule_result, outcome, origin, last_create>>

Next ==
    \/ CallerAuthenticate
    \/ Invoke
    \/ AuthenticateOk
    \/ AuthenticateFails
    \/ ItemRaises
    \/ ItemParseFails
    \/ ItemSubmitted
    \/ Return

Spec == Init /\ [][Next]_vars

SpecItem == InitItem /\ [][Next]_vars

\* The caller also calls create_event itself, between the batches
NextDirect ==
    \/ CallerAuthenticate
    \/ CallerCreateEvent
    \/ Invoke
    \/ AuthenticateOk
    \/ AuthenticateFails
    \/ ItemRaises
    \/ ItemParseFails
    \/ ItemSubmitted
    \/ Return

SpecDirect == Init /\ [][NextDirect]_vars

NextIntegrate ==
    \/ IntegrateRejected
    \/ IntegrateDecodeError
    \/ IntegrateRaises
    \/ IntegratePrepared
    \/ Invoke
    \/ AuthenticateOk
    \/ AuthenticateFails
    \/ ItemRaises
    \/ ItemParseFails
    \/ ItemSubmitted
    \/ Return
    \/ IntegrateReturns
    \/ IntegratePropagates

SpecIntegrate == InitIntegrate /\ [][NextIntegrate]_vars

-----------------------------------------------------------------------------
(* Vocabulary of the properties *)

IsPrefix(p, s) == Len(p) <= Len(s) /\ SubSeq(s, 1, Len(p)) = p

IsSuffix(p, s) == Len(p) <= Len(s) /\ SubSeq(s, Len(s) - Len(p) + 1, Len(s)) = p

\* sub occurs in s
Contains(s, sub) ==
    \E a \in 0..(Len(s) - Len(sub)) : SubSeq(s, a + 1, a + Len(sub)) = sub

CallIndexes == 1..Len(calls)

\* authenticate() of this call returned False
AuthFailed == \E c \in CallIndexes : calls[c].op = "authenticate" /\ ~calls[c].ok

\* create_events_from_schedule has returned its results
Returned == phase = "done"

\* the call has ended, by a return or by an exception
Ended == phase \in {"done", "raised"}

Parsed(k) == \E c \in CallIndexes : calls[c].op = "parse" /\ calls[c].idx = k

ParseFailed(k) == \E c \in CallIndexes : calls[c].op = "parse" /\ calls[c].idx = k /\ ~calls[c].ok

Inserts(k) == {c \in CallIndexes : calls[c].op = "insert" /\ calls[c].idx = k}

InsertFailed(k) == \E c \in Inserts(k) : ~calls[c].ok

InsertOk(k) == \E c \in Inserts(k) : calls[c].ok

ItemIndexes == 1..Len(schedule_data)

IsMapping(item) == item.t = "dict"

DateOf(item) == Get(item, "date", PyStr(<<>>))

DayOf(item) == Get(item, "day", PyStr(<<>>))

\* Two characters that are equal up to letter case
SameLetter(a, b) ==
    a = b \/ \E k \in 1..Len(Uppers) : {a, b} = {Uppers[k], Lowers[k]}

MatchesName(s, name) ==
    Len(s) = Len(name) /\ \A k \in 1..Len(s) : SameLetter(s[k], name[k])

\* day is one of the seven English weekday names, in any letter case
RecognizedDay(day) ==
    day.t = "str" /\ \E n \in 1..Len(WeekdayNames) : MatchesName(day.v, WeekdayNames[n])

TargetIndex(day) ==
    (CHOOSE n \in 1..Len(WeekdayNames) : MatchesName(day.v, WeekdayNames[n])) - 1

-----------------------------------------------------------------------------
(* C1 *)

\* C1 as stated: every returned result has total = created + failed, on the
\* authentication-failure path too.
C1_TotalIsCreatedPlusFailed ==
    Returned => results.total = results.created + results.failed

\* C1 amended: a result returned after authentication succeeded (or with a
\* session already there) has total = created + failed, total the number of
\* input items; the result of a failed authentication has created = 0 and
\* failed = 0 while total is still the number of input items.
C1_TotalAfterAuthentication ==
    Returned =>
        /\ results.total = Len(schedule_data)
        /\ IF AuthFailed
           THEN results.created = 0 /\ results.failed = 0
           ELSE results.total = results.created + results.failed

C1_Witness ==
    /\ Returned /\ ~AuthFailed
    /\ results.created > 0
    /\ \E k \in ItemIndexes : ParseFailed(k)
    /\ \E k \in ItemIndexes : InsertFailed(k)

-----------------------------------------------------------------------------
(* C2 *)

\* C2: when the call finds no session and authenticate() fails, the returned
\* result has created = 0, failed = 0 and exactly one error, the authentication
\* failure, and no item was parsed or submitted to the backend.
C2_AuthFailureIsFatal ==
    (Returned /\ AuthFailed) =>
        /\ results.created = 0
        /\ results.failed = 0
        /\ results.errors = <<AuthErrorMessage>>
        /\ \A c \in CallIndexes : calls[c].op = "authenticate"

C2_Witness ==
    /\ Returned /\ AuthFailed
    /\ Len(schedule_data) >= 2
    /\ \E k \in ItemIndexes : IsMapping(schedule_data[k]) /\ Truthy(DateOf(schedule_data[k]))

-----------------------------------------------------------------------------
(* C3 *)

\* C3: once an item has failed (in synthesis or in remote creation), the call
\* ends only after every later item was synthesized, with failed and errors
\* counting exactly the failed items.
C3_FailureNeverAborts ==
    (Ended /\ ~AuthFailed) =>
        \A k \in ItemIndexes :
            (ParseFailed(k) \/ InsertFailed(k)) =>
                /\ \A j \in (k + 1)..Len(schedule_data) : Parsed(j)
                /\ results.failed =
                       Cardinality({j \in ItemIndexes : ParseFailed(j) \/ InsertFailed(j)})
                /\ Len(results.errors) = results.failed

-----------------------------------------------------------------------------
(* C4 *)

\* C4: past authentication the call never ends with an exception.
C4_NeverRaises == phase # "raised"

-----------------------------------------------------------------------------
(* C5 *)

\* What the claim expects the entry to name: the course, or the placeholder
CourseOrPlaceholder(item) == Format(Get(item, "course", PyStr(<<"Unknown Course">>)))

\* The reason of a synthesis failure: the name of the exception caught at line 150
FailureReason(item) ==
    IF DayOf(item).t # "str" THEN <<"AttributeError">> ELSE <<"ValueError">>

ParseErrorEntries == {e \in 1..Len(errItems) : errItems[e] > 0 /\ ParseFailed(errItems[e])}

\* C5 as stated: the entry of a synthesis failure names the item's course, or
\* "Unknown Course" when it has none, and the failure reason.
C5_EntryNamesCourseAndReason ==
    \A e \in ParseErrorEntries :
        /\ Contains(results.errors[e], CourseOrPlaceholder(schedule_data[errItems[e]]))
        /\ Contains(results.errors[e], FailureReason(schedule_data[errItems[e]]))

\* C5 amended: the entry of a synthesis failure is "Failed to parse schedule
\* item: " followed by the text of the whole item; it shows the course value
\* when the item has a course field, and names neither "Unknown Course" when
\* the item has none nor the failure reason.
C5_EntryShowsItem ==
    \A e \in ParseErrorEntries :
        LET item == schedule_data[errItems[e]]
            entry == results.errors[e]
        IN  /\ IsPrefix(<<"Failed to parse schedule item: ", "{">>, entry)
            /\ entry[Len(entry)] = "}"
            /\ \A k \in 1..Len(Keys) :
                   item.f[Keys[k]].t # "missing" =>
                       Contains(entry, <<"'", Keys[k], "'", ": ">> \o ReprScalar(item.f[Keys[k]]))
            /\ item.f["course"].t = "missing" => ~Contains(entry, <<"Unknown Course">>)
            /\ ~Contains(entry, FailureReason(item))

C5_Witness ==
    /\ Returned
    /\ \E e \in ParseErrorEntries : schedule_data[errItems[e]].f["course"].t = "missing"
    /\ \E e \in ParseErrorEntries : schedule_data[errItems[e]].f["course"].t = "str"

-----------------------------------------------------------------------------
(* C6 *)

\* C6: the parse calls and the backend insert calls of one batch run go through
\* the items in input order, at most once each (exactly once when the run
\* returned after authentication), and an insert is made only for, and right
\* after, an item whose synthesis gave an event, with that event.
C6_InOrderOnceEach ==
    /\ \A c, d \in CallIndexes :
           (c < d /\ calls[c].op = calls[d].op) => calls[c].idx < calls[d].idx
    /\ \A c \in CallIndexes :
           calls[c].op = "insert" =>
               /\ c > 1
               /\ calls[c - 1] = [op |-> "parse", idx |-> calls[c].idx, ok |-> TRUE]
               /\ calls[c].event = parse_schedule_item(schedule_data[calls[c].idx], today)
               /\ calls[c].event.t = "event"
    /\ \A c \in CallIndexes :
           calls[c].op = "parse" => calls[c].idx \in 1..(pos - 1)
    /\ (Returned /\ ~AuthFailed) => \A k \in ItemIndexes : Parsed(k)

C6_Witness ==
    /\ Returned
    /\ Len(schedule_data) = 3
    /\ InsertOk(1) /\ ParseFailed(2) /\ InsertFailed(3)

-----------------------------------------------------------------------------
(* C7 *)

\* C7 as stated: every returned result has as many errors as failed items.
C7_OneErrorPerFailure == Returned => Len(results.errors) = results.failed

\* The entry the code writes for failed item k
ExpectedEntry(k) ==
    IF ParseFailed(k) THEN ParseErrorMessage(schedule_data[k])
    ELSE CreateErrorMessage(schedule_data[k])

\* C7 amended: a result returned after authentication succeeded has one entry
\* per failed item, in the order the items were processed; the result of a
\* failed authentication has one entry, the authentication failure, and
\* failed = 0.
C7_ErrorsFollowFailures ==
    Returned =>
        IF AuthFailed
        THEN Len(results.errors) = 1 /\ results.failed = 0
        ELSE /\ Len(results.errors) = results.failed
             /\ Len(errItems) = results.failed
             /\ \A e \in 1..Len(errItems) :
                    /\ errItems[e] \in ItemIndexes
                    /\ ParseFailed(errItems[e]) \/ InsertFailed(errItems[e])
                    /\ results.errors[e] = ExpectedEntry(errItems[e])
             /\ \A e, g \in 1..Len(errItems) : e < g => errItems[e] < errItems[g]
             /\ \A k \in ItemIndexes :
                    (ParseFailed(k) \/ InsertFailed(k)) => \E e \in 1..Len(errItems) : errItems[e] = k

C7_Witness ==
    /\ Returned /\ ~AuthFailed
    /\ results.failed = 2
    /\ results.errors[1] # results.errors[2]
    /\ ParseFailed(errItems[1]) /\ InsertFailed(errItems[2])

-----------------------------------------------------------------------------
(* C8 *)

StartOf(item) == Format(Get(item, "from", PyStr(<<"08:00">>)))

EndOf(item) == Format(Get(item, "to", PyStr(<<"10:00">>)))

\* C8: an item with a non-empty date is never failed by date resolution, and
\* the event submitted for it starts and ends on exactly that date, whatever
\* its day and whatever today is.
C8_DateUsedVerbatim ==
    \A k \in ItemIndexes :
        LET item == schedule_data[k]
        IN  (IsMapping(item) /\ Truthy(DateOf(item)) /\ Parsed(k)) =>
                /\ ~ParseFailed(k)
                /\ Inserts(k) # {}
                /\ \A c \in Inserts(k) :
                       /\ calls[c].event.start.dateTime
                              = Format(DateOf(item)) \o <<"T">> \o StartOf(item) \o <<":00">>
                       /\ calls[c].event.end.dateTime
                              = Format(DateOf(item)) \o <<"T">> \o EndOf(item) \o <<":00">>

C8_Witness ==
    /\ Returned
    /\ Len(schedule_data) = 1
    /\ IsMapping(schedule_data[1])
    /\ DateOf(schedule_data[1]) = SampleDate
    /\ RecognizedDay(DayOf(schedule_data[1]))
    /\ Weekday(today) # TargetIndex(DayOf(schedule_data[1]))
    /\ InsertOk(1)

-----------------------------------------------------------------------------
(* C9 *)

\* The offset as the specification words it
Offset(target, current) ==
    LET r == (target - current) % 7 IN IF r = 0 THEN 7 ELSE r

\* C9: an item with no date and a recognized day gets the date today + offset
\* days, offset = (target - current) mod 7 with 0 replaced by 7: in 1..7, and
\* never today.
C9_NextOccurrence ==
    \A k \in ItemIndexes :
        LET item == schedule_data[k]
        IN  (IsMapping(item) /\ ~Truthy(DateOf(item)) /\ RecognizedDay(DayOf(item)) /\ Parsed(k)) =>
                LET offset == Offset(TargetIndex(DayOf(item)), Weekday(today))
                    resolved == AddDays(today, offset)
                IN  /\ offset \in 1..7
                    /\ ToOrdinal(resolved) = ToOrdinal(today) + offset
                    /\ Weekday(resolved) = TargetIndex(DayOf(item))
                    /\ Inserts(k) # {}
                    /\ \A c \in Inserts(k) :
                           /\ calls[c].event.start.dateTime
                                  = Strftime(resolved) \o <<"T">> \o StartOf(item) \o <<":00">>
                           /\ ~IsPrefix(Strftime(today), calls[c].event.start.dateTime)

\* The (current weekday, target weekday) pairs the inputs of SpecItem cover
WeekdayPairs ==
    {<<Weekday(now), TargetIndex(day)>> :
        now \in TodayDates, day \in {v \in DayValues : RecognizedDay(v)}}

\* Today is a Monday and the day is "Monday": the event is 7 days from today
\* (and the inputs cover all 7 x 7 weekday pairs)
C9_Witness ==
    /\ WeekdayPairs = (0..6) \X (0..6)
    /\ Returned
    /\ Len(schedule_data) = 1
    /\ IsMapping(schedule_data[1])
    /\ ~Truthy(DateOf(schedule_data[1]))
    /\ DayOf(schedule_data[1]) = PyStr(<<"M","o","n","d","a","y">>)
    /\ Weekday(today) = 0
    /\ \E c \in Inserts(1) :
           IsPrefix(Strftime(AddDays(today, 7)), calls[c].event.start.dateTime)

-----------------------------------------------------------------------------
(* C10 *)

\* C10: an item with no (or an empty) date is synthesized exactly when its day
\* is one of the seven weekday names in any letter case; otherwise its
\* synthesis fails: no event, nothing submitted, one failure recorded.
C10_DayMustBeRecognized ==
    \A k \in ItemIndexes :
        LET item == schedule_data[k]
        IN  (IsMapping(item) /\ ~Truthy(DateOf(item)) /\ Parsed(k)) =>
                IF RecognizedDay(DayOf(item))
                THEN ~ParseFailed(k) /\ Inserts(k) # {}
                ELSE /\ ParseFailed(k)
                     /\ Inserts(k) = {}
                     /\ parse_schedule_item(item, today) = PyNone
                     /\ \E e \in 1..Len(errItems) : errItems[e] = k

C10_Witness ==
    /\ Returned
    /\ Len(schedule_data) = 1
    /\ IsMapping(schedule_data[1])
    /\ schedule_data[1].f["date"].t = "missing"
    /\ schedule_data[1].f["day"].t = "missing"
    /\ ParseFailed(1)
    /\ results.created = 0 /\ results.failed = 1

-----------------------------------------------------------------------------
(* C16 *)

\* The value of a field, or the default the data model gives a missing one
FieldOr(item, key, default) ==
    IF item.f[key].t = "missing" THEN PyStr(default) ELSE item.f[key]

HasField(item, key) == item.f[key].t # "missing"

\* C16: a mapping item with a non-empty date or a recognized day always gives
\* an event, whatever other fields are missing, and the event is built with
\* the defaults "Unknown Course", "Class", "", "08:00" and "10:00"; a mapping
\* item fails synthesis only when it has neither.
C16_OnlyDateResolutionFails ==
    \A k \in ItemIndexes :
        LET item == schedule_data[k]
        IN  (IsMapping(item) /\ Parsed(k)) =>
                IF Truthy(DateOf(item)) \/ RecognizedDay(DayOf(item))
                THEN /\ ~ParseFailed(k)
                     /\ Inserts(k) # {}
                     /\ \A c \in Inserts(k) :
                            LET event == calls[c].event
                                course == Format(FieldOr(item, "course", <<"Unknown Course">>))
                                type == Format(FieldOr(item, "type", <<"Class">>))
                                from == Format(FieldOr(item, "from", <<"08:00">>))
                                to == Format(FieldOr(item, "to", <<"10:00">>))
                            IN  /\ IsPrefix(course, event.summary)
                                /\ event.description = <<"Course: ">> \o course \o <<"\n", "Type: ">> \o type
                                /\ event.location = FieldOr(item, "location", <<>>)
                                /\ IsSuffix(<<"T">> \o from \o <<":00">>, event.start.dateTime)
                                /\ IsSuffix(<<"T">> \o to \o <<":00">>, event.end.dateTime)
                ELSE ParseFailed(k) /\ Inserts(k) = {}

\* An item with a date and nothing else: every default is used
C16_Witness ==
    /\ Returned
    /\ Len(schedule_data) = 1
    /\ IsMapping(schedule_data[1])
    /\ \A key \in {"course", "type", "location", "from", "to", "day"} :
           ~HasField(schedule_data[1], key)
    /\ Truthy(DateOf(schedule_data[1]))
    /\ InsertOk(1)
    /\ \E c \in Inserts(1) :
           /\ calls[c].event.summary = <<"Unknown Course", " - ", "Class">>
           /\ calls[c].event.location = PyStr(<<>>)

-----------------------------------------------------------------------------
(* C17 *)

\* C17: the title of the event is course + " - " + type when type is
\* non-empty and course alone when type is empty; an item with no type field
\* gets the default type: course + " - Class".
C17_TitleFromCourseAndType ==
    \A c \in CallIndexes :
        calls[c].op = "insert" =>
            LET item == schedule_data[calls[c].idx]
                course == Format(FieldOr(item, "course", <<"Unknown Course">>))
                title == calls[c].event.summary
            IN  /\ ~HasField(item, "type") => title = course \o <<" - ", "Class">>
                /\ (HasField(item, "type") /\ item.f["type"].t = "str") =>
                       IF item.f["type"].v = <<>>
                       THEN title = course
                       ELSE title = course \o <<" - ">> \o item.f["type"].v

C17_Witness ==
    /\ Returned
    /\ Len(schedule_data) = 1
    /\ IsMapping(schedule_data[1])
    /\ schedule_data[1].f["type"] = PyStr(<<>>)
    /\ \E c \in Inserts(1) : calls[c].event.summary = <<"Fysica">>

-----------------------------------------------------------------------------
(* C18 *)

\* C18: every event submitted to the backend has default reminders disabled,
\* one popup reminder at 15 minutes and one email reminder at 60 minutes,
\* whatever the fields of its item.
C18_FixedReminders ==
    \A c \in CallIndexes :
        calls[c].op = "insert" =>
            LET reminders == calls[c].event.reminders
            IN  /\ reminders.useDefault = FALSE
                /\ Len(reminders.overrides) = 2
                /\ \E a, b \in 1..2 :
                       /\ reminders.overrides[a] = [method |-> "popup", minutes |-> 15]
                       /\ reminders.overrides[b] = [method |-> "email", minutes |-> 60]

\* An item whose every field is given, with a course that is no string
C18_Witness ==
    /\ Returned
    /\ Len(schedule_data) = 1
    /\ IsMapping(schedule_data[1])
    /\ \A key \in {"course", "type", "location", "from", "to"} : HasField(schedule_data[1], key)
    /\ schedule_data[1].f["course"].t = "int"
    /\ InsertOk(1)

-----------------------------------------------------------------------------
(* C11 *)

\* The call of integrate_schedule_with_calendar has gone past line 276
Handled == stage \notin {"direct", "start"} /\ parsed_schedule_result.success

\* The call has ended with an exception before the batch was called
RaisedBeforeBatch == stage = "raised" /\ batches = 0

\* The events of the days before the d-th
RECURSIVE EventsBefore(_, _)
EventsBefore(counts, d) == IF d = 1 THEN 0 ELSE counts[d - 1] + EventsBefore(counts, d - 1)

\* C11: when the decoded content is the nested structure, schedule_data is
\* the events of the first day in their order, then those of the second day,
\* and so on, and nothing else; each item is the event it came from with its
\* day field set to the label of its day entry.
C11_FlattenedInDayOrder ==
    (Handled /\ origin.kind = "nested" /\ outcome # DecodeFailure) =>
        LET counts == origin.counts
        IN  /\ ~RaisedBeforeBatch
            /\ Len(schedule_data) = EventsBefore(counts, Len(counts) + 1)
            /\ \A d \in 1..Len(counts) : \A e \in 1..counts[d] :
                 schedule_data[EventsBefore(counts, d) + e]
                     = SetKey(NestedEvent(d, e), "day", DayLabel(d))

\* Two days of three events have given six items, and the batch has run on them
C11_Witness ==
    /\ stage = "returned"
    /\ origin.kind = "nested"
    /\ origin.counts = <<3, 3>>
    /\ Len(schedule_data) = 6
    /\ outcome.calendar_results.total = 6
    /\ schedule_data[1].f["day"] = DayLabel(1)
    /\ schedule_data[4].f["day"] = DayLabel(2)

-----------------------------------------------------------------------------
(* C12 *)

\* C12: content that is a JSON text inside a fence labelled json, also when
\* whitespace or a sentence comes before the fence, is handled as the JSON
\* text alone is: the same items, the same decoding failure or the same
\* exception.
C12_FencedAsUnwrapped ==
    (Handled /\ origin.wrapper \in {"fenced", "spaced", "prefixed"}) =>
        LET alone == Prepared(origin.text)
        IN  CASE alone.kind = "ok" ->
                    /\ outcome # DecodeFailure
                    /\ ~RaisedBeforeBatch
                    /\ schedule_data = alone.items
              [] alone.kind = "decode_error" -> outcome = DecodeFailure
              [] alone.kind = "raised" -> RaisedBeforeBatch

-----------------------------------------------------------------------------
(* C13 *)

\* The nested shape: a schedule key whose value has a days sequence
HasNestedShape(val) ==
    /\ val.t = "dict"
    /\ HasKey(val, "schedule")
    /\ val.f["schedule"].t = "dict"
    /\ HasKey(val.f["schedule"], "days")
    /\ val.f["schedule"].f["days"].t = "list"

\* The content is the JSON text of a mapping, with nothing around it
PlainMapping ==
    /\ Handled
    /\ origin.wrapper = "plain"
    /\ origin.kind # "invalid"
    /\ origin.value.t = "dict"

\* C13 as stated: a top-level mapping that has not the nested shape becomes
\* the one-item sequence of that mapping, also when it has a schedule key
\* whose value has no days.
C13_MappingWithoutNestedShapeIsOneItem ==
    (PlainMapping /\ ~HasNestedShape(origin.value)) =>
        /\ ~RaisedBeforeBatch
        /\ schedule_data = <<origin.value>>

\* C13, amended: a top-level mapping without a schedule key becomes the
\* one-item sequence of that mapping; a mapping with a schedule key is always
\* taken as the nested structure: when the value of schedule is a mapping
\* without days, schedule_data is empty, and when it is no mapping the call
\* ends with an exception before the batch.
C13_DispatchOnScheduleKey ==
    PlainMapping =>
        LET val == origin.value
        IN  /\ ~HasKey(val, "schedule") =>
                 /\ ~RaisedBeforeBatch
                 /\ schedule_data = <<val>>
            /\ (HasKey(val, "schedule") /\ val.f["schedule"].t = "dict"
                /\ ~HasKey(val.f["schedule"], "days")) =>
                 /\ ~RaisedBeforeBatch
                 /\ schedule_data = <<>>
            /\ (HasKey(val, "schedule") /\ val.f["schedule"].t # "dict") =>
                 /\ RaisedBeforeBatch
                 /\ schedule_data = <<>>

\* A mapping with a schedule without days has given a batch of no items, and
\* the call has returned
C13_Witness ==
    /\ PlainMapping
    /\ HasKey(origin.value, "schedule")
    /\ origin.value.f["schedule"].t = "dict"
    /\ ~HasKey(origin.value.f["schedule"], "days")
    /\ HasKey(origin.value.f["schedule"], "course")
    /\ stage = "returned"
    /\ outcome.calendar_results.total = 0

-----------------------------------------------------------------------------
(* C14 *)

\* C14: a top-level string, number, boolean or null becomes the one-item
\* sequence of that value, and the batch runs with a total of 1 and returns.
C14_ScalarIsOneItem ==
    (Handled /\ origin.wrapper = "plain" /\ origin.kind = "other"
     /\ origin.value.t \in {"str", "int", "bool", "none"}) =>
        /\ stage # "raised"
        /\ schedule_data = <<origin.value>>
        /\ stage \in {"batch", "returned"} => results.total = 1

-----------------------------------------------------------------------------
(* C15 *)

\* The content is no JSON once lines 283-286 are through with it: the text in
\* it is none, or the fence is one that stays
InvalidAfterStripping ==
    \/ origin.kind = "invalid"
    \/ origin.wrapper \in {"spaced", "prefixed", "unlabelled"}

\* C15: when the content is no JSON after the fence is stripped, the call
\* returns a result with success false, the decoding error and no calendar
\* results, and nothing was done before: no batch, no authenticate, no
\* parse, no insert, no item.
C15_DecodeErrorIsFatal ==
    (Handled /\ InvalidAfterStripping) =>
        /\ stage = "returned"
        /\ outcome = DecodeFailure
        /\ ~outcome.success
        /\ outcome.calendar_results = PyNone
        /\ IsPrefix(<<"Failed to parse schedule JSON: ">>, outcome.error)
        /\ batches = 0
        /\ calls = <<>>
        /\ service = 0
        /\ schedule_data = <<>>
        /\ phase = "idle"

\* A fenced text that is no JSON has been answered with the failure
C15_Witness ==
    /\ Handled
    /\ origin.kind = "invalid"
    /\ origin.wrapper = "fenced"
    /\ origin.text # <<>>
    /\ stage = "returned"
    /\ outcome = DecodeFailure

-----------------------------------------------------------------------------
(* C19 *)

AuthenticateCalls == {c \in CallIndexes : calls[c].op = "authenticate"}

\* The error of line 200 is in the results
AuthErrorReported == \E k \in 1..Len(results.errors) : results.errors[k] = AuthErrorMessage

\* What holds of a call at every moment: at most one authenticate(), the
\* first thing it does; items are parsed and inserted with a service only,
\* and after no authenticate() that failed; the authentication error goes
\* with a failed authenticate() and the return
C19_InCall ==
    /\ Cardinality(AuthenticateCalls) <= 1
    /\ AuthenticateCalls \subseteq {1}
    /\ phase = "processing" => service # 0
    /\ \A c \in CallIndexes :
         calls[c].op \in {"parse", "insert"} => (service # 0 /\ ~AuthFailed)
    /\ AuthErrorReported => (AuthFailed /\ phase = "done" /\ calls = <<calls[1]>>)

\* What holds of every step: the call begins in Authenticating when there is
\* no service and in Processing when there is one; Authenticating is left for
\* Processing when authenticate() returned True and for Done with the
\* authentication error otherwise; Processing is left for the end of the call
\* only; the authentication error comes from Authenticating only
C19_Step ==
    /\ batches' = batches + 1 =>
         /\ phase \in {"idle", "done", "raised"}
         /\ calls' = <<>>
         /\ phase' = IF service = 0 THEN "authenticating" ELSE "processing"
    /\ (phase' = "authenticating" /\ phase # "authenticating") =>
         (batches' = batches + 1 /\ service = 0)
    /\ (phase = "authenticating" /\ phase' # "authenticating") =>
         /\ Len(calls') = 1
         /\ calls'[1].op = "authenticate"
         /\ phase' = IF calls'[1].ok THEN "processing" ELSE "done"
         /\ calls'[1].ok => service' # 0
         /\ AuthErrorReported' <=> ~calls'[1].ok
    /\ (phase' = "processing" /\ phase # "processing") =>
         \/ phase = "authenticating"
         \/ batches' = batches + 1 /\ service # 0
    /\ (phase = "processing" /\ phase' # "processing") => phase' \in {"done", "raised"}
    /\ (AuthErrorReported' /\ ~AuthErrorReported) => phase = "authenticating"

\* C19: a call of create_events_from_schedule goes from Unauthenticated
\* through Authenticating to Processing and Done; authenticate() is called at
\* most once in a call and only when there is no service, a call on an
\* object that has a service begins in Processing, no item is parsed or
\* inserted before authenticate() has returned True, and the authentication
\* error is reached from Authenticating only.
C19_AuthenticateOnceThenProcess == [](C19_InCall) /\ [][C19_Step]_vars

\* A second call on the same object has inserted an event and returned
\* without a call of authenticate()
C19_Witness ==
    /\ batches = 2
    /\ phase = "done"
    /\ AuthenticateCalls = {}
    /\ \E c \in CallIndexes : calls[c].op = "insert" /\ calls[c].ok

-----------------------------------------------------------------------------
(* C20 *)

\* The items the call has parsed so far
ParsedSoFar == {calls[c].idx : c \in {d \in CallIndexes : calls[d].op = "parse"}}

\* C20: every call of create_events_from_schedule ends in Done with its
\* results, whatever fails in it: the call goes through the items one by
\* one, forward only and each at most once, and when it has ended it has
\* returned.
C20_EveryCallReturns ==
    /\ phase \in {"processing", "done", "raised"} =>
         /\ pos \in 1..(Len(schedule_data) + 1)
         /\ ParsedSoFar \subseteq 1..(pos - 1)
         /\ Cardinality({c \in CallIndexes : calls[c].op = "parse"}) = Cardinality(ParsedSoFar)
    /\ Ended => Returned

-----------------------------------------------------------------------------
(* C21 *)

InsertCalls == {c \in CallIndexes : calls[c].op = "insert"}

\* C21: create_event called without a service returns False and makes no
\* request of the backend, and no request is ever made without a service;
\* while create_events_from_schedule goes through the items there is a
\* service, and it is the one every insert of the call was made with.
C21_NoInsertWithoutService ==
    /\ last_create # PyNone =>
         /\ last_create.session = 0 => (~last_create.contacted /\ ~last_create.ok)
         /\ last_create.contacted => last_create.session # 0
    /\ phase = "processing" => service # 0
    /\ \A c \in InsertCalls : calls[c].session # 0
    /\ \A c, d \in InsertCalls : calls[c].session = calls[d].session
    /\ phase = "processing" => \A c \in InsertCalls : calls[c].session = service

\* create_event was called without a service and returned False, and after
\* it a call of create_events_from_schedule has made two inserts
C21_Witness ==
    /\ last_create # PyNone
    /\ last_create.session = 0
    /\ ~last_create.ok
    /\ phase = "done"
    /\ Cardinality(InsertCalls) >= 2

-----------------------------------------------------------------------------
(* C22 *)

\* integrate_schedule_with_calendar has returned after the batch has run
ReturnedAfterBatch == stage = "returned" /\ batches > 0

\* C22: after a batch has run, the success of the result is that at least
\* one event was created: true also when other items failed; false for no
\* items, for items that all failed and for a failed authentication; and
\* calendar_results is what the batch returned.
C22_SuccessIsSomeCreated ==
    ReturnedAfterBatch =>
        /\ outcome.calendar_results = results
        /\ results.total = Len(schedule_data)
        /\ outcome.success <=> (results.created > 0)
        /\ outcome.success <=> (\E k \in ItemIndexes : InsertOk(k))
        /\ schedule_data = <<>> => ~outcome.success
        /\ AuthFailed => (~outcome.success /\ results.errors = <<AuthErrorMessage>>)
        /\ (results.failed = results.total) => ~outcome.success

\* The result is a success though an item failed
C22_Witness ==
    /\ ReturnedAfterBatch
    /\ outcome.success
    /\ outcome.calendar_results.created = 1
    /\ outcome.calendar_results.failed >= 1

-----------------------------------------------------------------------------
(* C23 *)

\* C23: when the result of the parsing agent has no success, the call
\* returns the failure with the agent's error at once, whatever the content
\* is: no decoding, no items, no batch, no authenticate, no parse, no insert.
C23_UpstreamFailureIsFatal ==
    (stage \notin {"direct", "start"} /\ ~parsed_schedule_result.success) =>
        /\ stage = "returned"
        /\ ~outcome.success
        /\ outcome.calendar_results = PyNone
        /\ IsPrefix(<<"Schedule parsing failed: ">>, outcome.error)
        /\ outcome # DecodeFailure
        /\ schedule_data = <<>>
        /\ batches = 0
        /\ calls = <<>>
        /\ service = 0
        /\ phase = "idle"

\* A failed result whose content is a schedule of six events in a fence has
\* been answered with the failure
C23_Witness ==
    /\ stage = "returned"
    /\ ~parsed_schedule_result.success
    /\ origin.kind = "nested"
    /\ origin.counts = <<3, 3>>
    /\ origin.wrapper = "fenced"
    /\ ~outcome.success

====
